---------------------------- MODULE Spec2Model ----------------------------
(***************************************************************************)
(* The FastAPI bookstore of src/demoapp/app.py: the request-tracking       *)
(* middleware (track_requests), the sliding-window RPS estimator           *)
(* (calculate_current_rps), the Prometheus metric series and the book and  *)
(* order handlers.                                                         *)
(*                                                                         *)
(* Time is read from time.time() in whole seconds.  A request is a task of *)
(* the event loop with three atomic steps, separated by the only await of  *)
(* the middleware (line 171): its arrival (lines 163-170), the handler     *)
(* that call_next runs, and its completion (lines 172-186).                *)
(***************************************************************************)
EXTENDS Integers, Sequences, FiniteSets, TLC

(* ------------------------------ bounds -------------------------------- *)
\* Requests issued in one behaviour.
MaxReq == 2
\* Longest list of book IDs posted to /orders in SpecOrders.
MaxItems == 2
\* Requests issued in one behaviour of SpecOrderFlow.
MaxOrderReq == 3

(* ------------------------- program constants -------------------------- *)
\* app.py:62
RPS_WINDOW == 60

\* app.py:50, in milliseconds (0.1, 0.25, 0.5, 1.0, 2.5, 5.0 seconds).
LatencyBuckets == <<100, 250, 500, 1000, 2500, 5000>>

(* An IEEE-754 double v >= 0 is the pair <<hi, lo>> with                   *)
(* v = (hi * 2^26 + lo) * 2^-49: the prices 9.99, 12.99 and 14.99 have an  *)
(* ulp of 2^-49, and every total of the model is a multiple of it.         *)
Limb == 2^26
FloatZero == <<0, 0>>

\* price=9.99, 12.99, 14.99 (app.py:28-30) as doubles.
books_db ==
    [ book1 |-> [id |-> "book1", title |-> "The Great Gatsby",
                 author |-> "F. Scott Fitzgerald", price |-> <<83802193, 61740155>>],
      book2 |-> [id |-> "book2", title |-> "1984",
                 author |-> "George Orwell", price |-> <<108968017, 61740155>>],
      book3 |-> [id |-> "book3", title |-> "To Kill a Mockingbird",
                 author |-> "Harper Lee", price |-> <<125745233, 61740155>>] ]

(* ------------------------------ inputs -------------------------------- *)
\* The readings time.time() returns, in whole seconds: the start, and the
\* two readings around the end of the window that starts there.
Instants == {0, RPS_WINDOW, RPS_WINDOW + 1}

\* Book IDs a client sends: books of the catalog and an ID that is not in it.
BookIdInputs == {"book1", "book9"}
OrderBookIds == {"book1", "book2", "book9"}

\* Order IDs a client sends; uuid4() values are modelled as 1, 2, ...
OrderIdInputs == {1}

StatusInputs == {<<"shipped">>}

RECURSIVE SeqsUpTo(_, _)
SeqsUpTo(S, n) ==
    IF n = 0 THEN {<<>>}
    ELSE LET shorter == SeqsUpTo(S, n - 1)
         IN  shorter \cup { Append(s, x) : s \in {t \in shorter : Len(t) = n - 1}, x \in S }

\* A request: method, url path, and the query or body argument.
GetRequest(path) == [method |-> "GET", path |-> path, arg |-> <<>>]
PostOrder(book_ids) == [method |-> "POST", path |-> <<"orders">>, arg |-> book_ids]
PutStatus(order_id, status) ==
    [method |-> "PUT", path |-> <<"orders", order_id, "status">>, arg |-> status]

\* The requests of Spec: every instrumented endpoint, an order of two books
\* and an order whose second book is not in the catalog.
BookIdLists == {<<"book1", "book2">>, <<"book1", "book9">>}
Requests ==
    {GetRequest(<<p>>) : p \in {"health", "metrics", "prometheus"}}
    \cup {GetRequest(<<"books", b>>) : b \in BookIdInputs}
    \cup {PostOrder(l) : l \in BookIdLists}
    \cup {PutStatus(o, s) : o \in OrderIdInputs, s \in StatusInputs}

\* The requests of SpecOrders: every list of up to MaxItems book IDs.
OrderRequests ==
    {PostOrder(l) : l \in SeqsUpTo(OrderBookIds, MaxItems)}
    \cup {PutStatus(o, s) : o \in 1..2, s \in StatusInputs}

\* The requests of SpecOrderFlow: two orders, and status updates of the
\* order IDs they get.
OrderFlowRequests ==
    {PostOrder(l) : l \in {<<"book1">>, <<"book2", "book3">>}}
    \cup {PutStatus(o, s) : o \in 1..2, s \in StatusInputs}

(* ------------------------------- state -------------------------------- *)
VARIABLES
    clock,                \* the reading time.time() returns now
    rps_window,           \* the module global RPS_WINDOW (60 unless reconfigured)
    request_timestamps,   \* app.py:61
    REQUEST_COUNT,        \* counter series by <<method, endpoint, http_status>>
    REQUEST_LATENCY,      \* histogram series by <<method, endpoint>>
    REQUESTS_PER_SECOND,  \* the gauge, a fraction <<num, den>>
    orders_db,            \* app.py:33
    reqs                  \* the middleware calls, in order of arrival

vars == <<clock, rps_window, request_timestamps, REQUEST_COUNT, REQUEST_LATENCY,
          REQUESTS_PER_SECOND, orders_db, reqs>>

metricVars == <<REQUEST_COUNT, REQUEST_LATENCY, REQUESTS_PER_SECOND>>

(* ---------------------------- arithmetic ------------------------------ *)
\* Python's a / b: the fraction <<a, b>>; a zero denominator is the raised
\* ZeroDivisionError.
PyDiv(a, b) == <<a, b>>
IsZeroDiv(x) == x[2] = 0
\* Python's int 0 (the else branches of lines 75 and 88).
PyZero == <<0, 1>>
FracEq(x, y) == x[2] # 0 /\ y[2] # 0 /\ x[1] * y[2] = y[1] * x[2]

\* Granularity of a double whose value is hi * 2^26 + lo units of 2^-49.
Ulp(hi) ==
    IF hi < 2^27 THEN 1 ELSE IF hi < 2^28 THEN 2 ELSE IF hi < 2^29 THEN 4 ELSE 8

\* a + b on doubles: the exact sum, rounded to nearest, ties to even.
FloatAdd(a, b) ==
    LET lo0  == a[2] + b[2]
        hi1  == a[1] + b[1] + (lo0 \div Limb)
        lo1  == lo0 % Limb
        g    == Ulp(hi1)
        r    == lo1 % g
        down == lo1 - r
        up   == (2 * r > g) \/ (2 * r = g /\ (down \div g) % 2 = 1)
        lo2  == IF up THEN down + g ELSE down
    IN  <<hi1 + (lo2 \div Limb), lo2 % Limb>>

(* ----------------------- sliding-window estimator --------------------- *)
\* Evict with >= for >: a head exactly one window old is dropped.
RECURSIVE Evict_DropsBoundary(_, _, _)
Evict_DropsBoundary(ts, current_time, window) ==
    IF ts # <<>> /\ current_time - Head(ts) >= window
    THEN Evict_DropsBoundary(Tail(ts), current_time, window)
    ELSE ts

\* The while loop of lines 73-74: pop(0) while the head is older than the window.
RECURSIVE Evict(_, _, _)
Evict(ts, current_time, window) ==
    IF ts # <<>> /\ current_time - Head(ts) > window
    THEN Evict(Tail(ts), current_time, window)
    ELSE ts

\* Line 75.
Rate(ts, window) ==
    IF ts # <<>> THEN PyDiv(Len(ts), window) ELSE PyZero

\* calculate_current_rps() with time.time() = current_time: the list it
\* leaves and the value it returns (or the ZeroDivisionError it raises).
calculate_current_rps(ts, current_time, window) ==
    LET kept == Evict(ts, current_time, window)
    IN  [timestamps |-> kept, rate |-> Rate(kept, window)]

(* --------------------------- metric series ---------------------------- *)
\* REQUEST_COUNT.labels(...).inc(): the series is created on first use.
Inc(counter, label) ==
    IF label \in DOMAIN counter
    THEN [counter EXCEPT ![label] = @ + 1]
    ELSE [l \in DOMAIN counter \cup {label} |-> IF l = label THEN 1 ELSE counter[l]]

EmptySeries == [buckets |-> [i \in 1..Len(LatencyBuckets) + 1 |-> 0], sum |-> 0, count |-> 0]

\* ObserveSeries that adds to the sum and the buckets and forgets the count.
ObserveSeries_NoCount(s, duration) ==
    [buckets |-> [i \in DOMAIN s.buckets |->
                     IF i > Len(LatencyBuckets) \/ duration * 1000 <= LatencyBuckets[i]
                     THEN s.buckets[i] + 1 ELSE s.buckets[i]],
     sum     |-> s.sum + duration,
     count   |-> s.count]

\* One observation of `duration` seconds: every bucket whose bound is >= the
\* value, the +Inf bucket (the last), the running sum and the count.
ObserveSeries(s, duration) ==
    [buckets |-> [i \in DOMAIN s.buckets |->
                     IF i > Len(LatencyBuckets) \/ duration * 1000 <= LatencyBuckets[i]
                     THEN s.buckets[i] + 1 ELSE s.buckets[i]],
     sum     |-> s.sum + duration,
     count   |-> s.count + 1]

\* REQUEST_LATENCY.labels(...).observe(duration).
Observe(histogram, label, duration) ==
    IF label \in DOMAIN histogram
    THEN [histogram EXCEPT ![label] = ObserveSeries(@, duration)]
    ELSE [l \in DOMAIN histogram \cup {label} |->
             IF l = label THEN ObserveSeries(EmptySeries, duration) ELSE histogram[l]]

\* The sum of the values of a function with a finite domain.
RECURSIVE SumFn(_)
SumFn(f) ==
    IF DOMAIN f = {} THEN 0
    ELSE LET x == CHOOSE y \in DOMAIN f : TRUE
         IN  f[x] + SumFn([y \in DOMAIN f \ {x} |-> f[y]])

\* REQUEST_COUNT._value.sum(), REQUEST_LATENCY._sum.sum(), ._count.sum().
CountTotal(counter) == SumFn(counter)
LatencySum(histogram) == SumFn([l \in DOMAIN histogram |-> histogram[l].sum])
LatencyCount(histogram) == SumFn([l \in DOMAIN histogram |-> histogram[l].count])

\* The body of GET /metrics (lines 85-89).
Snapshot(counter, histogram, current_rps) ==
    [request_count   |-> CountTotal(counter),
     current_rps     |-> current_rps,
     average_latency |-> IF LatencyCount(histogram) > 0
                         THEN PyDiv(LatencySum(histogram), LatencyCount(histogram))
                         ELSE PyZero]

\* generate_latest(registry): the sample lines of the three metrics.
ExportText(counter, histogram, gauge) ==
    { <<"app_request_count_total", l, counter[l]>> : l \in DOMAIN counter }
    \cup { <<"app_request_latency_seconds_bucket", <<l, i>>, histogram[l].buckets[i]>> :
              l \in DOMAIN histogram, i \in 1..Len(LatencyBuckets) + 1 }
    \cup { <<"app_request_latency_seconds_sum", l, histogram[l].sum>> : l \in DOMAIN histogram }
    \cup { <<"app_request_latency_seconds_count", l, histogram[l].count>> : l \in DOMAIN histogram }
    \cup { <<"app_requests_per_second", <<>>, gauge>> }

(* ------------------------------ handlers ------------------------------ *)
\* HTTPException(status_code=404, detail=...) as the response FastAPI makes of it.
HTTPException(status_code, detail) == [status_code |-> status_code, body |-> detail]

\* get_book without the membership test of line 106.
get_book_NoCheck(book_id) ==
    [status_code |-> 200,
     body |-> IF book_id \in DOMAIN books_db THEN books_db[book_id] ELSE <<>>]

\* Lines 103-108.
get_book(book_id) ==
    IF book_id \notin DOMAIN books_db
    THEN HTTPException(404, <<"Book not found">>)
    ELSE [status_code |-> 200, body |-> books_db[book_id]]

\* SumPrices with total = price for total += price.
RECURSIVE SumPrices_Assign(_, _, _)
SumPrices_Assign(book_ids, i, total) ==
    IF i > Len(book_ids) THEN [missing |-> <<>>, total |-> total]
    ELSE IF book_ids[i] \notin DOMAIN books_db
         THEN [missing |-> <<book_ids[i]>>, total |-> total]
         ELSE SumPrices_Assign(book_ids, i + 1, books_db[book_ids[i]].price)

\* The loop of lines 127-131 from item i on: the first ID that is not in
\* books_db, or the total of the prices.
RECURSIVE SumPrices(_, _, _)
SumPrices(book_ids, i, total) ==
    IF i > Len(book_ids) THEN [missing |-> <<>>, total |-> total]
    ELSE IF book_ids[i] \notin DOMAIN books_db
         THEN [missing |-> <<book_ids[i]>>, total |-> total]
         ELSE SumPrices(book_ids, i + 1, FloatAdd(total, books_db[book_ids[i]].price))

\* str(uuid.uuid4()): an ID no order has.
uuid4(db) == CHOOSE i \in 1..(Cardinality(DOMAIN db) + 1) :
                 i \notin DOMAIN db /\ \A j \in 1..(i - 1) : j \in DOMAIN db

\* create_order that stores the order before it validates the book IDs: a
\* list with an unknown ID is refused and still leaves an order behind.
create_order_StoresFirst(book_ids, db) ==
    LET loop     == SumPrices(book_ids, 1, FloatZero)
        order_id == uuid4(db)
        order    == [id |-> order_id, items |-> book_ids, total |-> loop.total,
                     status |-> "pending"]
        stored   == [o \in DOMAIN db \cup {order_id} |->
                        IF o = order_id THEN order ELSE db[o]]
    IN  IF loop.missing # <<>>
        THEN [response |-> HTTPException(404, <<"Book not found", loop.missing[1]>>),
              orders_db |-> stored]
        ELSE [response |-> [status_code |-> 200, body |-> order], orders_db |-> stored]

\* Lines 122-141: the response and the orders_db it leaves.
create_order(book_ids, db) ==
    LET loop     == SumPrices(book_ids, 1, FloatZero)
        order_id == uuid4(db)
        order    == [id |-> order_id, items |-> book_ids, total |-> loop.total,
                     status |-> "pending"]
    IN  IF loop.missing # <<>>
        THEN [response |-> HTTPException(404, <<"Book not found", loop.missing[1]>>),
              orders_db |-> db]
        ELSE [response |-> [status_code |-> 200, body |-> order],
              orders_db |-> [o \in DOMAIN db \cup {order_id} |->
                                IF o = order_id THEN order ELSE db[o]]]

\* update_order_status without the membership test of line 155: an upsert.
update_order_status_Upsert(order_id, status, db) ==
    LET order   == IF order_id \in DOMAIN db
                   THEN [db[order_id] EXCEPT !.status = status]
                   ELSE [id |-> order_id, items |-> <<>>, total |-> FloatZero,
                         status |-> status]
        updated == [o \in DOMAIN db \cup {order_id} |->
                       IF o = order_id THEN order ELSE db[o]]
    IN  [response |-> [status_code |-> 200, body |-> order], orders_db |-> updated]

\* update_order_status that writes the status into every order.
update_order_status_AllOrders(order_id, status, db) ==
    IF order_id \notin DOMAIN db
    THEN [response |-> HTTPException(404, <<"Order not found">>), orders_db |-> db]
    ELSE LET updated == [o \in DOMAIN db |-> [db[o] EXCEPT !.status = status]]
         IN  [response |-> [status_code |-> 200, body |-> updated[order_id]],
              orders_db |-> updated]

\* Lines 152-158.
update_order_status(order_id, status, db) ==
    IF order_id \notin DOMAIN db
    THEN [response |-> HTTPException(404, <<"Order not found">>), orders_db |-> db]
    ELSE LET updated == [db EXCEPT ![order_id].status = status]
         IN  [response |-> [status_code |-> 200, body |-> updated[order_id]],
              orders_db |-> updated]

(* ------------------------------ requests ------------------------------ *)
Awaiting(i) == i \in 1..Len(reqs) /\ reqs[i].pc = "awaiting"

\* call_next returned `response` to the middleware of request i.
Respond(i, response) ==
    reqs' = [reqs EXCEPT ![i].pc = "responded",
                         ![i].status_code = response.status_code,
                         ![i].body = response.body]

\* An exception leaves the middleware of request i: nothing after the
\* raising line runs.
Propagate(i, error) ==
    reqs' = [reqs EXCEPT ![i].pc = "failed", ![i].error = error]

Init ==
    /\ clock = 0
    /\ rps_window = RPS_WINDOW
    /\ request_timestamps = <<>>
    /\ REQUEST_COUNT = <<>>
    /\ REQUEST_LATENCY = <<>>
    /\ REQUESTS_PER_SECOND = PyZero
    /\ orders_db = <<>>
    /\ reqs = <<>>

\* time.time() advances.
Tick(t) ==
    /\ t > clock
    /\ clock' = t
    /\ UNCHANGED <<rps_window, request_timestamps, metricVars, orders_db, reqs>>

\* The system clock is set back: time.time() is the wall clock.
ClockSetBack(t) ==
    /\ t < clock
    /\ clock' = t
    /\ UNCHANGED <<rps_window, request_timestamps, metricVars, orders_db, reqs>>

\* A middleware that leaves the observability endpoints out of the window.
RecordArrival_SkipsObservability(rq, t) ==
    /\ t >= clock /\ t - clock <= 1
    /\ LET current_time == clock
           skipped == rq.path \in {<<"health">>, <<"metrics">>, <<"prometheus">>}
           rps == calculate_current_rps(IF skipped THEN request_timestamps
                                        ELSE Append(request_timestamps, current_time),
                                        t, rps_window)
           call == [method |-> rq.method, path |-> rq.path, arg |-> rq.arg,
                    pc |-> "awaiting", arrival |-> current_time, start_time |-> t,
                    status_code |-> 0, body |-> <<>>, duration |-> 0, error |-> ""]
       IN  /\ request_timestamps' = rps.timestamps
           /\ IF IsZeroDiv(rps.rate)
              THEN /\ reqs' = Append(reqs, [call EXCEPT !.pc = "failed",
                                                        !.error = "ZeroDivisionError"])
                   /\ UNCHANGED REQUESTS_PER_SECOND
              ELSE /\ reqs' = Append(reqs, call)
                   /\ REQUESTS_PER_SECOND' = rps.rate
    /\ clock' = t
    /\ UNCHANGED <<rps_window, REQUEST_COUNT, REQUEST_LATENCY, orders_db>>

\* track_requests up to its await (lines 163-171) for a new request rq;
\* time.time() returns clock at line 163 and t, the same second or the next,
\* at lines 72 and 170.
RecordArrival(rq, t) ==
    /\ t >= clock /\ t - clock <= 1
    /\ LET current_time == clock
           rps == calculate_current_rps(Append(request_timestamps, current_time),
                                        t, rps_window)
           call == [method |-> rq.method, path |-> rq.path, arg |-> rq.arg,
                    pc |-> "awaiting", arrival |-> current_time, start_time |-> t,
                    status_code |-> 0, body |-> <<>>, duration |-> 0, error |-> ""]
       IN  /\ request_timestamps' = rps.timestamps
           /\ IF IsZeroDiv(rps.rate)
              THEN /\ reqs' = Append(reqs, [call EXCEPT !.pc = "failed",
                                                        !.error = "ZeroDivisionError"])
                   /\ UNCHANGED REQUESTS_PER_SECOND
              ELSE /\ reqs' = Append(reqs, call)
                   /\ REQUESTS_PER_SECOND' = rps.rate
    /\ clock' = t
    /\ UNCHANGED <<rps_window, REQUEST_COUNT, REQUEST_LATENCY, orders_db>>

\* A request arrives while fewer than MaxReq have been issued.
Arrive(rq, t) == Len(reqs) < MaxReq /\ RecordArrival(rq, t)

\* GET /health (lines 78-80).
Health(i) ==
    /\ Awaiting(i)
    /\ reqs[i].method = "GET" /\ reqs[i].path = <<"health">>
    /\ Respond(i, [status_code |-> 200, body |-> [status |-> "healthy"]])
    /\ UNCHANGED <<clock, rps_window, request_timestamps, metricVars, orders_db>>

\* GET /metrics (lines 82-89).
Metrics(i) ==
    /\ Awaiting(i)
    /\ reqs[i].method = "GET" /\ reqs[i].path = <<"metrics">>
    /\ LET rps == calculate_current_rps(request_timestamps, clock, rps_window)
       IN  /\ request_timestamps' = rps.timestamps
           /\ IF IsZeroDiv(rps.rate)
              THEN Propagate(i, "ZeroDivisionError")
              ELSE Respond(i, [status_code |-> 200,
                               body |-> Snapshot(REQUEST_COUNT, REQUEST_LATENCY, rps.rate)])
    /\ UNCHANGED <<clock, rps_window, metricVars, orders_db>>

\* An export that refreshes the gauge as GET /metrics refreshes the rate.
Prometheus_RefreshesGauge(i) ==
    /\ Awaiting(i)
    /\ reqs[i].method = "GET" /\ reqs[i].path = <<"prometheus">>
    /\ Respond(i, [status_code |-> 200,
                   body |-> ExportText(REQUEST_COUNT, REQUEST_LATENCY, REQUESTS_PER_SECOND)])
    /\ REQUESTS_PER_SECOND' = PyDiv(Len(request_timestamps) + 1, RPS_WINDOW)
    /\ UNCHANGED <<clock, rps_window, request_timestamps, REQUEST_COUNT, REQUEST_LATENCY,
                   orders_db>>

\* GET /prometheus (lines 91-93).
Prometheus(i) ==
    /\ Awaiting(i)
    /\ reqs[i].method = "GET" /\ reqs[i].path = <<"prometheus">>
    /\ Respond(i, [status_code |-> 200,
                   body |-> ExportText(REQUEST_COUNT, REQUEST_LATENCY, REQUESTS_PER_SECOND)])
    /\ UNCHANGED <<clock, rps_window, request_timestamps, metricVars, orders_db>>

\* GET /books/{book_id} (lines 102-108).
GetBook(i) ==
    /\ Awaiting(i)
    /\ reqs[i].method = "GET" /\ Len(reqs[i].path) = 2 /\ reqs[i].path[1] = "books"
    /\ Respond(i, get_book(reqs[i].path[2]))
    /\ UNCHANGED <<clock, rps_window, request_timestamps, metricVars, orders_db>>

\* POST /orders (lines 121-141).
CreateOrder(i) ==
    /\ Awaiting(i)
    /\ reqs[i].method = "POST" /\ reqs[i].path = <<"orders">>
    /\ LET done == create_order(reqs[i].arg, orders_db)
       IN  /\ orders_db' = done.orders_db
           /\ Respond(i, done.response)
    /\ UNCHANGED <<clock, rps_window, request_timestamps, metricVars>>

\* PUT /orders/{order_id}/status (lines 151-158).
UpdateOrderStatus(i) ==
    /\ Awaiting(i)
    /\ reqs[i].method = "PUT" /\ Len(reqs[i].path) = 3 /\ reqs[i].path[3] = "status"
    /\ LET done == update_order_status(reqs[i].path[2], reqs[i].arg[1], orders_db)
       IN  /\ orders_db' = done.orders_db
           /\ Respond(i, done.response)
    /\ UNCHANGED <<clock, rps_window, request_timestamps, metricVars>>

\* await call_next(request) raises (line 171): an exception that is not an
\* HTTPException left the application, or the client went away.  The
\* middleware has no try/finally: lines 172-186 do not run.
CallNextRaises(i) ==
    /\ Awaiting(i)
    /\ Propagate(i, "Exception")
    /\ UNCHANGED <<clock, rps_window, request_timestamps, metricVars, orders_db>>

\* A completion that observes the latency of successful responses only.
Complete_ObservesSuccessOnly(i) ==
    /\ i \in 1..Len(reqs) /\ reqs[i].pc = "responded"
    /\ LET duration == clock - reqs[i].start_time
       IN  /\ REQUEST_COUNT' = Inc(REQUEST_COUNT,
                                   <<reqs[i].method, reqs[i].path, reqs[i].status_code>>)
           /\ REQUEST_LATENCY' = IF reqs[i].status_code < 400
                                 THEN Observe(REQUEST_LATENCY,
                                              <<reqs[i].method, reqs[i].path>>, duration)
                                 ELSE REQUEST_LATENCY
           /\ reqs' = [reqs EXCEPT ![i].pc = "done", ![i].duration = duration]
    /\ UNCHANGED <<clock, rps_window, request_timestamps, REQUESTS_PER_SECOND, orders_db>>

\* track_requests after its await (lines 172-186).
Complete(i) ==
    /\ i \in 1..Len(reqs) /\ reqs[i].pc = "responded"
    /\ LET duration == clock - reqs[i].start_time
       IN  /\ REQUEST_COUNT' = Inc(REQUEST_COUNT,
                                   <<reqs[i].method, reqs[i].path, reqs[i].status_code>>)
           /\ REQUEST_LATENCY' = Observe(REQUEST_LATENCY,
                                         <<reqs[i].method, reqs[i].path>>, duration)
           /\ reqs' = [reqs EXCEPT ![i].pc = "done", ![i].duration = duration]
    /\ UNCHANGED <<clock, rps_window, request_timestamps, REQUESTS_PER_SECOND, orders_db>>

Handler(i) ==
    \/ Health(i)
    \/ Metrics(i)
    \/ Prometheus(i)
    \/ GetBook(i)
    \/ CreateOrder(i)
    \/ UpdateOrderStatus(i)

Next ==
    \/ \E rq \in Requests, t \in Instants : Arrive(rq, t)
    \/ \E t \in Instants : Tick(t)
    \/ \E i \in 1..MaxReq : Handler(i)
    \/ \E i \in 1..MaxReq : CallNextRaises(i)
    \/ \E i \in 1..MaxReq : Complete(i)

\* Normal operation: clock readings never decrease.
Spec == Init /\ [][Next]_vars

\* time.time() is the wall clock: the system clock may be set back.
NextWallClock == Next \/ \E t \in Instants : ClockSetBack(t)
SpecWallClock == Init /\ [][NextWallClock]_vars

\* The order endpoints alone, with every list of book IDs; the clock stands.
NextOrders ==
    \/ \E rq \in OrderRequests : Arrive(rq, clock)
    \/ \E i \in 1..MaxReq : CreateOrder(i)
    \/ \E i \in 1..MaxReq : UpdateOrderStatus(i)
    \/ \E i \in 1..MaxReq : Complete(i)
SpecOrders == Init /\ [][NextOrders]_vars

\* Orders created and then updated: up to MaxOrderReq requests to the order
\* endpoints; the clock stands.
ArriveOrderFlow(rq) == Len(reqs) < MaxOrderReq /\ RecordArrival(rq, clock)
NextOrderFlow ==
    \/ \E rq \in OrderFlowRequests : ArriveOrderFlow(rq)
    \/ \E i \in 1..MaxOrderReq : CreateOrder(i)
    \/ \E i \in 1..MaxOrderReq : UpdateOrderStatus(i)
    \/ \E i \in 1..MaxOrderReq : CallNextRaises(i)
    \/ \E i \in 1..MaxOrderReq : Complete(i)
SpecOrderFlow == Init /\ [][NextOrderFlow]_vars

\* RPS_WINDOW is a parameter of the deployment: 60, or 0.
WindowSizes == {0, RPS_WINDOW}
InitWindow ==
    /\ rps_window \in WindowSizes
    /\ clock = 0
    /\ request_timestamps = <<>>
    /\ REQUEST_COUNT = <<>>
    /\ REQUEST_LATENCY = <<>>
    /\ REQUESTS_PER_SECOND = PyZero
    /\ orders_db = <<>>
    /\ reqs = <<>>
SpecWindow == InitWindow /\ [][Next]_vars

(* ------------------------------- claims ------------------------------- *)
Called == 1..Len(reqs)
\* The steps of request i: its handler returns, call_next raises, it completes.
HandlerReturns(i) == reqs[i].pc = "awaiting" /\ reqs'[i].pc = "responded"
HandlerRaises(i) == reqs[i].pc = "awaiting" /\ reqs'[i].pc = "failed"
Completes(i) == reqs[i].pc = "responded" /\ reqs'[i].pc = "done"

IsMetrics(r) == r.method = "GET" /\ r.path = <<"metrics">>
IsPrometheus(r) == r.method = "GET" /\ r.path = <<"prometheus">>
IsBookDetail(r) == r.method = "GET" /\ Len(r.path) = 2 /\ r.path[1] = "books"
IsCreateOrder(r) == r.method = "POST" /\ r.path = <<"orders">>
IsUpdateStatus(r) == r.method = "PUT" /\ Len(r.path) = 3 /\ r.path[3] = "status"

\* C1: the request_count of the snapshot equals the number of middleware
\* calls that have completed, those whose handler failed included.
C1_CountEqualsCompletedCalls ==
    Snapshot(REQUEST_COUNT, REQUEST_LATENCY, PyZero).request_count
        = Cardinality({i \in Called : reqs[i].pc \in {"done", "failed"}})

\* C2: when call_next raises, the middleware still increments the request
\* counter and observes the duration before the failure reaches the caller,
\* and the failure is propagated unchanged.
C2_FailureStillObserved ==
    [][\A i \in Called : HandlerRaises(i) =>
          /\ CountTotal(REQUEST_COUNT') = CountTotal(REQUEST_COUNT) + 1
          /\ LatencyCount(REQUEST_LATENCY') = LatencyCount(REQUEST_LATENCY) + 1
          /\ reqs'[i].error # ""]_vars

\* The rate over the timestamps recorded so far by the calls `calls`, read at `now`.
WindowRate(calls, now, window) ==
    LET n == Cardinality({j \in 1..Len(calls) :
                             now - window <= calls[j].arrival /\ calls[j].arrival <= now})
    IN  IF n = 0 THEN PyZero ELSE PyDiv(n, window)

\* C3: every rate query at time now returns the number of recorded
\* timestamps t with now - w <= t <= now, divided by w, whatever the order
\* in which the timestamps were recorded.
C3_RateCountsTrailingWindow ==
    [][/\ \A i \in Called : (HandlerReturns(i) /\ IsMetrics(reqs[i])) =>
             FracEq(reqs'[i].body.current_rps, WindowRate(reqs, clock, rps_window))
       /\ (Len(reqs') > Len(reqs) /\ reqs'[Len(reqs')].pc = "awaiting") =>
             FracEq(REQUESTS_PER_SECOND', WindowRate(reqs', clock', rps_window))]_vars

RpsQueryAfterBooks(i) ==
    /\ i = Len(reqs) /\ i >= 2
    /\ IsMetrics(reqs[i])
    /\ rps_window = RPS_WINDOW
    /\ \A j \in 1..(i - 1) : IsBookDetail(reqs[j]) /\ reqs[j].path[2] \in DOMAIN books_db
    /\ \A j, k \in 1..(i - 1) : reqs[j].arrival - reqs[k].arrival <= 1

\* C5 as stated: after n book-detail requests for an existing ID within one
\* second, the current_rps of a subsequent GET /metrics is n/60.
C5_QueryYieldsNOver60 ==
    [][\A i \in Called : (HandlerReturns(i) /\ RpsQueryAfterBooks(i)) =>
          FracEq(reqs'[i].body.current_rps, PyDiv(i - 1, RPS_WINDOW))]_vars

\* C5 as amended: the current_rps of that GET /metrics is (n+1)/60, the n
\* book requests and the querying request itself, provided the query arrives
\* and is answered no more than 60 seconds after the earliest of the n
\* requests.
C5_QueryCountsItself ==
    [][\A i \in Called :
          (/\ HandlerReturns(i)
           /\ RpsQueryAfterBooks(i)
           /\ \A j \in 1..(i - 1) : /\ reqs[i].start_time - reqs[j].arrival <= RPS_WINDOW
                                    /\ clock - reqs[j].arrival <= RPS_WINDOW) =>
          FracEq(reqs'[i].body.current_rps, PyDiv(i, RPS_WINDOW))]_vars

\* A query answered exactly 60 seconds after the one book request before it.
C5_Witness ==
    /\ Len(reqs) = 2
    /\ IsBookDetail(reqs[1]) /\ reqs[1].path[2] = "book1" /\ reqs[1].arrival = 0
    /\ IsMetrics(reqs[2]) /\ reqs[2].pc = "responded"
    /\ clock = RPS_WINDOW
    /\ reqs[2].body.current_rps = <<2, RPS_WINDOW>>

UnknownBook(r) == IsBookDetail(r) /\ r.path[2] \notin DOMAIN books_db

\* The counter moved from `before` to `after` by one increment of `label` alone.
IncrementedOnce(before, after, label) ==
    /\ DOMAIN after = DOMAIN before \cup {label}
    /\ after[label] = (IF label \in DOMAIN before THEN before[label] ELSE 0) + 1
    /\ \A l \in DOMAIN before : l # label => after[l] = before[l]

\* C6: a request for a book ID that is not in books_db ends with a 404 to
\* the caller, and the counter series of its (method, endpoint, 404) is
\* incremented by exactly one for it.
C6_UnknownBookCounted404 ==
    [][\A i \in Called : UnknownBook(reqs[i]) =>
          /\ HandlerReturns(i) => reqs'[i].status_code = 404
          /\ Completes(i) =>
                /\ reqs'[i].status_code = 404
                /\ IncrementedOnce(REQUEST_COUNT, REQUEST_COUNT',
                                   <<reqs[i].method, reqs[i].path, 404>>)]_vars

\* Two requests for the unknown book9 are done, each counted once under 404.
C6_Witness ==
    /\ Len(reqs) = 2
    /\ \A i \in Called : UnknownBook(reqs[i]) /\ reqs[i].pc = "done" /\ reqs[i].status_code = 404
    /\ REQUEST_COUNT[<<"GET", <<"books", "book9">>, 404>>] = 2

\* C7: update_order_status with an order ID that is not in orders_db yields a
\* 404 and leaves orders_db unchanged.
C7_UnknownOrderLeavesDbUnchanged ==
    [][\A i \in Called :
          (/\ IsUpdateStatus(reqs[i])
           /\ reqs[i].pc = "awaiting" /\ reqs'[i].pc # "awaiting"
           /\ reqs[i].path[2] \notin DOMAIN orders_db) =>
          /\ reqs'[i].pc = "responded"
          /\ reqs'[i].status_code = 404
          /\ orders_db' = orders_db]_vars

\* An update of order 2 was refused while order 1 exists.
C7_Witness ==
    /\ DOMAIN orders_db = {1}
    /\ \E i \in Called : /\ IsUpdateStatus(reqs[i]) /\ reqs[i].path[2] = 2
                         /\ reqs[i].pc = "responded" /\ reqs[i].status_code = 404

\* The prices of the listed books added up from the first to the last.
RECURSIVE PriceSum(_)
PriceSum(items) ==
    IF items = <<>> THEN FloatZero
    ELSE FloatAdd(PriceSum(SubSeq(items, 1, Len(items) - 1)),
                  books_db[items[Len(items)]].price)

\* The double 22.98.
Double2298 == <<192770211, 56371446>>

\* C8: create_order with book IDs that all exist returns and stores an order
\* whose total is the sum of the listed prices, with multiplicity (22.98 for
\* [book1, book2]), whose items are the submitted list and whose status is
\* "pending".
C8_OrderTotalIsPriceSum ==
    [][\A i \in Called :
          (/\ IsCreateOrder(reqs[i])
           /\ reqs[i].pc = "awaiting" /\ reqs'[i].pc # "awaiting"
           /\ \A k \in 1..Len(reqs[i].arg) : reqs[i].arg[k] \in DOMAIN books_db) =>
          /\ reqs'[i].pc = "responded"
          /\ reqs'[i].status_code = 200
          /\ reqs'[i].body.total = PriceSum(reqs[i].arg)
          /\ reqs[i].arg = <<"book1", "book2">> => reqs'[i].body.total = Double2298
          /\ reqs'[i].body.items = reqs[i].arg
          /\ reqs'[i].body.status = "pending"
          /\ reqs'[i].body.id \notin DOMAIN orders_db
          /\ reqs'[i].body.id \in DOMAIN orders_db'
          /\ orders_db'[reqs'[i].body.id] = reqs'[i].body]_vars

\* The order of [book1, book2] is stored with total 22.98 and status pending.
C8_Witness ==
    \E i \in Called :
        /\ IsCreateOrder(reqs[i]) /\ reqs[i].arg = <<"book1", "book2">>
        /\ reqs[i].pc = "responded" /\ reqs[i].status_code = 200
        /\ reqs[i].body.total = Double2298
        /\ reqs[i].body.id \in DOMAIN orders_db
        /\ orders_db[reqs[i].body.id].total = Double2298
        /\ orders_db[reqs[i].body.id].status = "pending"

\* The durations the middleware has observed: one per completed call.
ObservedCalls == {i \in Called : reqs[i].pc = "done"}
ObservedTotal == SumFn([i \in ObservedCalls |-> reqs[i].duration])

\* C9: the average_latency of the snapshot is the sum of the observed
\* durations divided by their number, and 0 before any observation.
C9_AverageLatencyIsMean ==
    LET average == Snapshot(REQUEST_COUNT, REQUEST_LATENCY, PyZero).average_latency
    IN  IF ObservedCalls = {}
        THEN average = PyZero
        ELSE FracEq(average, PyDiv(ObservedTotal, Cardinality(ObservedCalls)))

\* Two observations in two series, 60 and 1 seconds long.
C9_Witness ==
    /\ Cardinality(DOMAIN REQUEST_LATENCY) = 2
    /\ Cardinality(ObservedCalls) = 2
    /\ ObservedTotal = RPS_WINDOW + 1
    /\ Snapshot(REQUEST_COUNT, REQUEST_LATENCY, PyZero).average_latency
           = <<RPS_WINDOW + 1, 2>>

\* C10: an export returns what the next export with no request step in
\* between returns, and changes no counter, histogram, gauge or timestamp.
C10_ExportIsIdempotentRead ==
    [][\A i \in Called : (IsPrometheus(reqs[i]) /\ HandlerReturns(i)) =>
          /\ reqs'[i].body = ExportText(REQUEST_COUNT', REQUEST_LATENCY', REQUESTS_PER_SECOND')
          /\ REQUEST_COUNT' = REQUEST_COUNT
          /\ REQUEST_LATENCY' = REQUEST_LATENCY
          /\ REQUESTS_PER_SECOND' = REQUESTS_PER_SECOND
          /\ request_timestamps' = request_timestamps]_vars

\* Two exports with no request step between them returned the same text.
C10_Witness ==
    /\ Len(reqs) = 2
    /\ \A i \in Called : IsPrometheus(reqs[i]) /\ reqs[i].pc = "responded"
    /\ reqs[1].body = reqs[2].body
    /\ reqs[1].body = ExportText(REQUEST_COUNT, REQUEST_LATENCY, REQUESTS_PER_SECOND)

\* The arrival instants of the middleware calls, in order of arrival.
Arrivals == [j \in 1..Len(reqs) |-> reqs[j].arrival]

\* The calls that have completed, with a response or with a failure.
CompletedCalls == {i \in Called : reqs[i].pc \in {"done", "failed"}}
\* The calls in flight: waiting for call_next, or resumed and not yet counted.
InFlight == {i \in Called : reqs[i].pc \in {"awaiting", "responded"}}

\* C11: under any interleaving of overlapping requests no append, increment
\* or observation is lost or applied twice: once all N requests have
\* completed, the total counter and the total histogram observation count
\* both equal N, and the window holds one timestamp per request not yet
\* evicted (the timestamps of the latest requests, in order of arrival).
C11_NoUpdateLostOrDoubled ==
    /\ CountTotal(REQUEST_COUNT) <= Cardinality(CompletedCalls)
    /\ LatencyCount(REQUEST_LATENCY) <= Cardinality(CompletedCalls)
    /\ InFlight = {} =>
          /\ CountTotal(REQUEST_COUNT) = Len(reqs)
          /\ LatencyCount(REQUEST_LATENCY) = Len(reqs)
    /\ \E k \in 0..Len(reqs) :
          request_timestamps = SubSeq(Arrivals, k + 1, Len(reqs))

\* C12: the timestamp is appended and the gauge written before the handler
\* is invoked, the counter incremented and the latency observed only after
\* the handler has completed; in every reachable state the number of
\* timestamps ever recorded is at least the total request count, and the
\* difference is the number of requests still in flight.
C12_RecordedMinusCountedInFlight ==
    /\ Len(reqs) >= CountTotal(REQUEST_COUNT)
    /\ Len(reqs) - CountTotal(REQUEST_COUNT) = Cardinality(InFlight)

Sorted(ts) == \A a, b \in 1..Len(ts) : a < b => ts[a] <= ts[b]

\* The steps in which calculate_current_rps runs: an arrival (line 167) and
\* a GET /metrics handler (line 84).
RateRead ==
    \/ Len(reqs') > Len(reqs)
    \/ \E i \in Called : HandlerReturns(i) /\ IsMetrics(reqs[i])

\* C13: request_timestamps is sorted ascending in every reachable state, and
\* right after every rate read it holds no entry older than the 60-second
\* window at any position, not only at the head.
C13_WindowSortedAndFresh ==
    [][/\ Sorted(request_timestamps')
       /\ RateRead =>
             \A k \in 1..Len(request_timestamps') :
                clock' - request_timestamps'[k] <= RPS_WINDOW]_vars

\* C14: every counter series and every histogram series (bucket counts,
\* running sum, running count) is monotonically non-decreasing across any
\* sequence of operations: no operation resets or decrements a series, and a
\* series once created for a label combination is never removed.
C14_SeriesNeverDecrease ==
    [][/\ \A l \in DOMAIN REQUEST_COUNT :
             /\ l \in DOMAIN REQUEST_COUNT'
             /\ REQUEST_COUNT'[l] >= REQUEST_COUNT[l]
       /\ \A l \in DOMAIN REQUEST_LATENCY :
             /\ l \in DOMAIN REQUEST_LATENCY'
             /\ \A b \in 1..Len(LatencyBuckets) + 1 :
                   REQUEST_LATENCY'[l].buckets[b] >= REQUEST_LATENCY[l].buckets[b]
             /\ REQUEST_LATENCY'[l].sum >= REQUEST_LATENCY[l].sum
             /\ REQUEST_LATENCY'[l].count >= REQUEST_LATENCY[l].count]_vars

\* C15: the gauge is overwritten on every request arrival: right after a
\* request's arrival steps it equals the number of timestamps within the
\* trailing 60 seconds, the arriving request's own included, divided by 60;
\* no other operation writes the gauge.
C15_GaugeIsWindowCountAtArrival ==
    [][/\ (Len(reqs') > Len(reqs) /\ rps_window = RPS_WINDOW) =>
             /\ clock' - RPS_WINDOW <= reqs'[Len(reqs')].arrival
             /\ reqs'[Len(reqs')].arrival <= clock'
             /\ FracEq(REQUESTS_PER_SECOND', WindowRate(reqs', clock', RPS_WINDOW))
       /\ Len(reqs') = Len(reqs) => REQUESTS_PER_SECOND' = REQUESTS_PER_SECOND]_vars

\* The handler step of request i: call_next returns or raises.
HandlerStep(i) == reqs[i].pc = "awaiting" /\ reqs'[i].pc # "awaiting"

AllBooksExist(book_ids) == \A k \in 1..Len(book_ids) : book_ids[k] \in DOMAIN books_db

\* C16: order creation is all-or-nothing: with a book ID that is not in
\* books_db at any position of the list, create_order answers 404 and leaves
\* orders_db unchanged; a successful create_order adds exactly one entry
\* under a fresh ID and modifies no existing order.
C16_CreateOrderAllOrNothing ==
    [][\A i \in Called : (IsCreateOrder(reqs[i]) /\ HandlerStep(i)) =>
          IF AllBooksExist(reqs[i].arg)
          THEN /\ reqs'[i].pc = "responded" /\ reqs'[i].status_code = 200
               /\ \E o \in DOMAIN orders_db' \ DOMAIN orders_db :
                     DOMAIN orders_db' = DOMAIN orders_db \cup {o}
               /\ \A o \in DOMAIN orders_db : orders_db'[o] = orders_db[o]
          ELSE /\ reqs'[i].pc = "responded" /\ reqs'[i].status_code = 404
               /\ orders_db' = orders_db]_vars

\* An order whose second book is unknown was refused after an order was
\* stored: the stored order is the only one.
C16_Witness ==
    /\ Len(reqs) = 2
    /\ IsCreateOrder(reqs[1]) /\ reqs[1].pc \in {"responded", "done"}
    /\ reqs[1].status_code = 200
    /\ IsCreateOrder(reqs[2]) /\ reqs[2].arg = <<"book1", "book9">>
    /\ reqs[2].pc = "responded" /\ reqs[2].status_code = 404
    /\ DOMAIN orders_db = {reqs[1].body.id}
    /\ orders_db[reqs[1].body.id] = reqs[1].body

\* C17: a successful update_order_status on an existing order changes only
\* that order's status field, to the given value: its id, items and total
\* and every other order are unchanged; no operation removes an order, so
\* the set of order IDs only grows.
C17_UpdateChangesOnlyStatus ==
    [][/\ DOMAIN orders_db \subseteq DOMAIN orders_db'
       /\ \A i \in Called :
             (/\ IsUpdateStatus(reqs[i]) /\ HandlerReturns(i)
              /\ reqs[i].path[2] \in DOMAIN orders_db) =>
             LET id == reqs[i].path[2]
             IN  /\ reqs'[i].status_code = 200
                 /\ DOMAIN orders_db' = DOMAIN orders_db
                 /\ orders_db'[id].status = reqs[i].arg[1]
                 /\ orders_db'[id].id = orders_db[id].id
                 /\ orders_db'[id].items = orders_db[id].items
                 /\ orders_db'[id].total = orders_db[id].total
                 /\ reqs'[i].body = orders_db'[id]
                 /\ \A o \in DOMAIN orders_db : o # id => orders_db'[o] = orders_db[o]]_vars

\* Of two stored orders the first was updated to shipped, the second is
\* still pending.
C17_Witness ==
    /\ DOMAIN orders_db = {1, 2}
    /\ orders_db[1].status = "shipped" /\ orders_db[1].items # <<>>
    /\ orders_db[2].status = "pending"
    /\ \E i \in Called : /\ IsUpdateStatus(reqs[i]) /\ reqs[i].path[2] = 1
                         /\ reqs[i].pc = "responded" /\ reqs[i].status_code = 200
                         /\ reqs[i].body = orders_db[1]

\* The counter series of the (method, endpoint) pair h, one per status.
StatusSeries(h) == {l \in DOMAIN REQUEST_COUNT : <<l[1], l[2]>> = h}

\* C18: the counter and the latency histogram are updated as a pair: the
\* total number of histogram observations equals the total request count,
\* and for each (method, endpoint) the histogram count equals the sum of the
\* counters over all statuses.
C18_CounterAndHistogramPaired ==
    /\ LatencyCount(REQUEST_LATENCY) = CountTotal(REQUEST_COUNT)
    /\ DOMAIN REQUEST_LATENCY = {<<l[1], l[2]>> : l \in DOMAIN REQUEST_COUNT}
    /\ \A h \in DOMAIN REQUEST_LATENCY :
          REQUEST_LATENCY[h].count = SumFn([l \in StatusSeries(h) |-> REQUEST_COUNT[l]])

\* The status update of order 1 was counted once under 404 and once under
\* 200, and its histogram series holds both observations.
C18_Witness ==
    LET h == <<"PUT", <<"orders", 1, "status">>>>
    IN  /\ h \in DOMAIN REQUEST_LATENCY
        /\ REQUEST_LATENCY[h].count = 2
        /\ StatusSeries(h) = {<<h[1], h[2], 404>>, <<h[1], h[2], 200>>}
        /\ REQUEST_COUNT[<<h[1], h[2], 404>>] = 1
        /\ REQUEST_COUNT[<<h[1], h[2], 200>>] = 1

IsObservability(r) ==
    r.method = "GET" /\ r.path \in {<<"health">>, <<"metrics">>, <<"prometheus">>}

\* The arrival of an observability request appends its own timestamp before
\* its handler runs and counts nothing yet.
ObservabilityArrivalRecorded ==
    (Len(reqs') > Len(reqs) /\ IsObservability(reqs'[Len(reqs')])) =>
        /\ request_timestamps' # <<>>
        /\ request_timestamps'[Len(request_timestamps')] = reqs'[Len(reqs')].arrival
        /\ reqs'[Len(reqs')].pc = "awaiting"
        /\ REQUEST_COUNT' = REQUEST_COUNT

\* The current_rps that GET /metrics returns for request i counts the window
\* with the timestamp of request i in it.
CountsItself(i) ==
    /\ Len(request_timestamps') >= Len(reqs) - i + 1
    /\ request_timestamps'[Len(request_timestamps') - (Len(reqs) - i)] = reqs[i].arrival
    /\ reqs'[i].body.current_rps = PyDiv(Len(request_timestamps'), RPS_WINDOW)

\* The completion of an observability request increments its counter series.
ObservabilityCompletionCounted ==
    \A i \in Called : (Completes(i) /\ IsObservability(reqs[i])) =>
        IncrementedOnce(REQUEST_COUNT, REQUEST_COUNT',
                        <<"GET", reqs[i].path, reqs[i].status_code>>)

\* C19 as stated: a request to GET /health, /metrics or /prometheus appends
\* its own timestamp to the window before its handler runs, the current_rps
\* that GET /metrics returns counts the querying request itself, and the
\* request increments the request counter once it completes.
C19_MetricsAlwaysCountsItself ==
    [][/\ ObservabilityArrivalRecorded
       /\ \A i \in Called : (HandlerReturns(i) /\ IsMetrics(reqs[i])) => CountsItself(i)
       /\ ObservabilityCompletionCounted]_vars

\* The timestamp of request i has not been evicted from the window.
StillInWindow(i) ==
    /\ Len(request_timestamps) >= Len(reqs) - i + 1
    /\ request_timestamps[Len(request_timestamps) - (Len(reqs) - i)] = reqs[i].arrival

\* C19 as amended: the current_rps that GET /metrics returns counts the
\* querying request itself as long as its timestamp has not been evicted as
\* older than 60 seconds: no earlier rate read has dropped it, and its
\* handler runs no more than 60 seconds after its arrival.
C19_MetricsCountsItselfWithinWindow ==
    [][/\ ObservabilityArrivalRecorded
       /\ \A i \in Called :
             (/\ HandlerReturns(i) /\ IsMetrics(reqs[i])
              /\ StillInWindow(i)
              /\ clock - reqs[i].arrival <= RPS_WINDOW) => CountsItself(i)
       /\ ObservabilityCompletionCounted]_vars

\* A GET /health was counted, and a GET /metrics that arrived after it was
\* answered with 2/60: the health check and the query itself.
C19_Witness ==
    /\ Len(reqs) = 2
    /\ reqs[1].method = "GET" /\ reqs[1].path = <<"health">> /\ reqs[1].pc = "done"
    /\ REQUEST_COUNT[<<"GET", <<"health">>, 200>>] = 1
    /\ IsMetrics(reqs[2]) /\ reqs[2].pc = "responded"
    /\ reqs[2].body.current_rps = <<2, RPS_WINDOW>>
    /\ reqs[2].body.request_count = 1

=============================================================================
